---- MODULE Spec2Model ----
(***************************************************************************)
(* Model of claude_statusbar's usage updater (update_usage.py): the        *)
(* /usage text parser, the pseudo-terminal driver, the updater's main and  *)
(* the merge into ~/.claude-usage.json.                                    *)
(*                                                                         *)
(* Text is a sequence of tokens; a token is the smallest piece of text one *)
(* of the program's patterns can match:                                    *)
(*   CS  "Current session"          CW  "Current week"                     *)
(*   PU  "<pct>% used"                                                     *)
(*   SM  the session symbol followed by "<pct>%"                           *)
(*   WM  the week symbol followed by "<pct>%"                              *)
(*   RT  "Resets <hr>[:<mi>]<ap>"   RD  "Resets <mon> <day>, <hr>[:<mi>]<ap>" *)
(*   CSI "\x1b[...m" (a terminal escape sequence)                          *)
(* Anything between two tokens is text no pattern matches.                 *)
(***************************************************************************)
EXTENDS Integers, Sequences, FiniteSets, TLC

VARIABLES
    now,            \* datetime.now(): the wall clock
    text,           \* parser: the text handed to parse_usage_output
    data,           \* the parse result or the driver's error result (a dict)
    ppc,            \* parser: "ready" | "parsed"
    usage_file,     \* ~/.claude-usage.json
    mpc,            \* updater main: "start" | "fetched" | "exited"
    exit_status,    \* updater main: process exit status of the last run
    runs,           \* number of updater runs started
    merged,         \* new_data of the last update_usage_file call that wrote
    dpc,            \* driver: position in fetch_usage_via_pty
    master,         \* driver: "none" | "open" | "closed"
    slave,          \* driver: "none" | "open" | "closed"
    proc,           \* child: "none" | "running" | "exited" | "terminated" | "killed"
    pty_buf,        \* bytes the child wrote that the driver has not read
    emitted,        \* number of tokens the child has written
    output,         \* driver: number of tokens read by the startup drain
    usage_output,   \* driver: text accumulated since /usage was sent
    elapsed,        \* driver: ticks since start_time
    stop,           \* driver: why the polling loop ended
    cpc,            \* concurrent invocations: position of each in main
    cdata,          \* concurrent invocations: the fetch result of each
    loaded,         \* concurrent invocations: the file each has read
    log,            \* the new_data of the writes to the file, in order
    overlapped      \* an invocation started while another was under way

vars == <<now, text, data, ppc, usage_file, mpc, exit_status, runs, merged,
          dpc, master, slave, proc, pty_buf, emitted, output, usage_output,
          elapsed, stop, cpc, cdata, loaded, log, overlapped>>

concVars == <<cpc, cdata, loaded, log, overlapped>>
parserVars == <<text, ppc>>
mainVars == <<usage_file, mpc, exit_status, runs, merged>>
driverVars == <<dpc, master, slave, proc, pty_buf, emitted, output,
                usage_output, elapsed, stop>>

(***************************************************************************)
(* Python dicts: functions from key strings.                               *)
(***************************************************************************)
EmptyDict == [k \in {} |-> 0]

Put(d, k, v) == [x \in (DOMAIN d) \cup {k} |-> IF x = k THEN v ELSE d[x]]

Has(d, k) == k \in DOMAIN d

(***************************************************************************)
(* datetime: a record; comparison is chronological, isoformat() writes the *)
(* fields most significant first.                                          *)
(***************************************************************************)
DateTime(y, mo, d, h, mi, s) ==
    [year |-> y, month |-> mo, day |-> d, hour |-> h, minute |-> mi, second |-> s]

isoformat(dt) == <<dt.year, dt.month, dt.day, dt.hour, dt.minute, dt.second>>

RECURSIVE SeqLess(_, _)
SeqLess(a, b) ==
    IF a = <<>> \/ b = <<>> THEN FALSE
    ELSE IF Head(a) # Head(b) THEN Head(a) < Head(b)
    ELSE SeqLess(Tail(a), Tail(b))

DtLess(a, b) == SeqLess(isoformat(a), isoformat(b))

IsLeap(y) == (y % 4 = 0 /\ y % 100 # 0) \/ y % 400 = 0

DaysInMonth(y, mo) ==
    IF mo = 2 THEN (IF IsLeap(y) THEN 29 ELSE 28)
    ELSE IF mo \in {4, 6, 9, 11} THEN 30 ELSE 31

\* datetime(y, mo, d, h, mi) raises ValueError unless the fields are in range
DatetimeOk(y, mo, d, h, mi) ==
    /\ mo \in 1..12
    /\ d \in 1..DaysInMonth(y, mo)
    /\ h \in 0..23
    /\ mi \in 0..59

MonthAbbr == <<"Jan", "Feb", "Mar", "Apr", "May", "Jun",
               "Jul", "Aug", "Sep", "Oct", "Nov", "Dec">>

\* strptime(date_str, "%b %d"): month number, 0 when the name is no month
MonthNumber(mon) ==
    IF \E i \in 1..12 : MonthAbbr[i] = mon
    THEN CHOOSE i \in 1..12 : MonthAbbr[i] = mon
    ELSE 0

StrptimeYear == 1900

\* strptime(date_str, "%b %d") succeeds: the date exists in the default year
StrptimeOk(mon, day) ==
    /\ MonthNumber(mon) # 0
    /\ day \in 1..DaysInMonth(StrptimeYear, MonthNumber(mon))

(***************************************************************************)
(* Tokens                                                                  *)
(***************************************************************************)
Tok(k, p, mon, d, h, mi, ap) ==
    [kind |-> k, pct |-> p, mon |-> mon, day |-> d, hr |-> h, min |-> mi, ap |-> ap]

CS == Tok("CS", 0, "", 0, 0, 0, "")
CW == Tok("CW", 0, "", 0, 0, 0, "")
PU(p) == Tok("PU", p, "", 0, 0, 0, "")
SM(p) == Tok("SM", p, "", 0, 0, 0, "")
WM(p) == Tok("WM", p, "", 0, 0, 0, "")
RT(h, mi, ap) == Tok("RT", 0, "", 0, h, mi, ap)
RD(mon, d, h, mi, ap) == Tok("RD", 0, mon, d, h, mi, ap)
CSI == Tok("CSI", 0, "", 0, 0, 0, "")

\* index of the first token of kind k after position i, 0 when there is none:
\* re.search with a lazy ".*?" under re.DOTALL takes the first one
FirstAfter(t, k, i) ==
    IF \E j \in (i + 1)..Len(t) : t[j].kind = k
    THEN CHOOSE j \in (i + 1)..Len(t) :
            /\ t[j].kind = k
            /\ \A m \in (i + 1)..(j - 1) : t[m].kind # k
    ELSE 0

\* "Current session.*?<k>": the first k after the first header
AfterHeader(t, header, k) ==
    IF FirstAfter(t, header, 0) = 0 THEN 0
    ELSE FirstAfter(t, k, FirstAfter(t, header, 0))

\* 12-hour to 24-hour
To24(h, ap) ==
    IF ap = "pm" /\ h # 12 THEN h + 12
    ELSE IF ap = "am" /\ h = 12 THEN 0
    ELSE h

(***************************************************************************)
(* parse_usage_output                                                      *)
(***************************************************************************)
\* lines 64-71: the compact fields
CompactFields(t) ==
    LET s == FirstAfter(t, "SM", 0)
        w == FirstAfter(t, "WM", 0)
        d1 == IF s # 0 THEN Put(EmptyDict, "session_percent", t[s].pct) ELSE EmptyDict
    IN  IF w # 0 THEN Put(d1, "week_percent", t[w].pct) ELSE d1

\* the compact-marker test with the early return taken out
CompactNever(t) == FALSE

\* line 74: "if compact_session or compact_week"
CompactFound(t) == FirstAfter(t, "SM", 0) # 0 \/ FirstAfter(t, "WM", 0) # 0

\* lines 77-83
SessionPercent(t, d) ==
    LET i == AfterHeader(t, "CS", "PU")
    IN  IF i # 0 THEN Put(d, "session_percent", t[i].pct) ELSE d

\* lines 85-103: only the hour of the time-of-day is kept
SessionReset(t, d) ==
    LET i == AfterHeader(t, "CS", "RT")
    IN  IF i # 0 THEN Put(d, "session_reset_hour", To24(t[i].hr, t[i].ap)) ELSE d

\* lines 105-111
WeekPercent(t, d) ==
    LET i == AfterHeader(t, "CW", "PU")
    IN  IF i # 0 THEN Put(d, "week_percent", t[i].pct) ELSE d

\* lines 140-145 with the rollover left out
WeekTargetThisYear(n, mo, dy, h, mi) == DateTime(n.year, mo, dy, h, mi, 0)

\* lines 140-145: the target in the current year, in the next when that is past
WeekTarget(n, mo, dy, h, mi) ==
    IF DtLess(DateTime(n.year, mo, dy, h, mi, 0), n)
    THEN DateTime(n.year + 1, mo, dy, h, mi, 0)
    ELSE DateTime(n.year, mo, dy, h, mi, 0)

\* lines 137-149: the try block raises ValueError on a date or time out of range
WeekTargetOk(n, mon, dy, h, mi) ==
    /\ StrptimeOk(mon, dy)
    /\ DatetimeOk(n.year, MonthNumber(mon), dy, h, mi)
    /\ (DtLess(DateTime(n.year, MonthNumber(mon), dy, h, mi, 0), n)
          => DatetimeOk(n.year + 1, MonthNumber(mon), dy, h, mi))

\* lines 113-149
WeekReset(t, n, d) ==
    LET i == AfterHeader(t, "CW", "RD")
        h == To24(t[i].hr, t[i].ap)
    IN  IF i # 0 /\ WeekTargetOk(n, t[i].mon, t[i].day, h, t[i].min)
        THEN Put(d, "week_reset",
                 isoformat(WeekTarget(n, MonthNumber(t[i].mon), t[i].day, h, t[i].min)))
        ELSE d

parse_usage_output(t, n) ==
    IF CompactFound(t) THEN CompactFields(t)
    ELSE WeekReset(t, n, WeekPercent(t, SessionReset(t, SessionPercent(t, EmptyDict))))

(***************************************************************************)
(* Bounds and input sets                                                   *)
(***************************************************************************)
MaxTextLen == 3

ParseTokens ==
    {CS, CW, PU(16), PU(13), SM(16), SM(0), WM(13), WM(100),
     RT(2, 30, "am"), RT(9, 0, "pm"),
     RD("Dec", 30, 5, 0, "pm"), RD("Jan", 5, 9, 30, "am"), RD("Feb", 29, 12, 0, "am")}

SeqsUpTo(S, n) == UNION {[1..m -> S] : m \in 0..n}

Nows ==
    {DateTime(2024, 12, 20, 10, 0, 30),
     DateTime(2024, 12, 30, 17, 0, 0),
     DateTime(2024, 12, 31, 23, 59, 59),
     DateTime(2025, 1, 5, 9, 30, 1)}

(***************************************************************************)
(* Variables a specification does not use keep these values.               *)
(***************************************************************************)
ParserIdle == text = <<>> /\ ppc = "idle"

MainIdle ==
    /\ usage_file = [kind |-> "missing", obj |-> EmptyDict]
    /\ mpc = "idle"
    /\ exit_status = 0
    /\ runs = 0
    /\ merged = [some |-> FALSE, data |-> EmptyDict, twice |-> FALSE]

DriverIdle ==
    /\ dpc = "idle"
    /\ master = "none"
    /\ slave = "none"
    /\ proc = "none"
    /\ pty_buf = <<>>
    /\ emitted = 0
    /\ output = 0
    /\ usage_output = <<>>
    /\ elapsed = 0
    /\ stop = "none"

ConcIdle ==
    /\ cpc = <<>>
    /\ cdata = <<>>
    /\ loaded = <<>>
    /\ log = <<>>
    /\ overlapped = FALSE

(***************************************************************************)
(* SpecParse: parse_usage_output applied to every text and every clock     *)
(***************************************************************************)
InitParse ==
    /\ now \in Nows
    /\ text \in SeqsUpTo(ParseTokens, MaxTextLen)
    /\ data = EmptyDict
    /\ ppc = "ready"
    /\ MainIdle
    /\ DriverIdle
    /\ ConcIdle

Parse ==
    /\ ppc = "ready"
    /\ data' = parse_usage_output(text, now)
    /\ ppc' = "parsed"
    /\ UNCHANGED <<now, text, mainVars, driverVars, concVars>>

NextParse == Parse

SpecParse == InitParse /\ [][NextParse]_vars

(***************************************************************************)
(* Claims about parse_usage_output                                         *)
(***************************************************************************)
HasKind(t, k) == \E i \in 1..Len(t) : t[i].kind = k

\* the header the token at position j belongs to: the last one before it
SectionOf(t, j) ==
    IF \E i \in 1..(j - 1) : t[i].kind \in {"CS", "CW"}
    THEN t[CHOOSE i \in 1..(j - 1) :
              /\ t[i].kind \in {"CS", "CW"}
              /\ \A m \in (i + 1)..(j - 1) : t[m].kind \notin {"CS", "CW"}].kind
    ELSE "none"

NextDay(dt) ==
    IF dt.day < DaysInMonth(dt.year, dt.month) THEN [dt EXCEPT !.day = @ + 1]
    ELSE IF dt.month < 12 THEN [dt EXCEPT !.month = @ + 1, !.day = 1]
    ELSE [dt EXCEPT !.year = @ + 1, !.month = 1, !.day = 1]

\* the next occurrence of h:mi strictly after n
NextOccurrence(n, h, mi) ==
    LET today == [n EXCEPT !.hour = h, !.minute = mi, !.second = 0]
    IN  IF DtLess(n, today) THEN today ELSE NextDay(today)

\* C4: when the verbose session section carries a reset time-of-day, the
\* parse result holds the bare hour and, under session_reset, the next
\* occurrence of that hour:minute strictly after now.
C4_SessionResetResolved ==
    (ppc = "parsed" /\ ~CompactFound(text) /\ AfterHeader(text, "CS", "RT") # 0) =>
        LET r == text[AfterHeader(text, "CS", "RT")]
        IN  /\ Has(data, "session_reset_hour")
            /\ Has(data, "session_reset")
            /\ data["session_reset"] =
                   isoformat(NextOccurrence(now, To24(r.hr, r.ap), r.min))

\* C5 as claimed: the stored week_reset is strictly after the now it was
\* computed from.
C5_WeekResetStrictlyAfterNow ==
    (ppc = "parsed" /\ Has(data, "week_reset")) =>
        SeqLess(isoformat(now), data["week_reset"])

\* C5 as amended: the stored week_reset is in the current year or the next
\* and is never before the now it was computed from.
C5_WeekResetNotBeforeNow ==
    (ppc = "parsed" /\ Has(data, "week_reset")) =>
        /\ ~SeqLess(data["week_reset"], isoformat(now))
        /\ data["week_reset"][1] \in {now.year, now.year + 1}

C5_Witness ==
    /\ ppc = "parsed"
    /\ Has(data, "week_reset")
    /\ data["week_reset"][1] = now.year + 1

\* C6: a text with a compact marker yields exactly the percentages of the
\* markers found and no reset field, whatever verbose sections it also has.
C6_CompactOnlyPercentages ==
    (ppc = "parsed" /\ (HasKind(text, "SM") \/ HasKind(text, "WM"))) =>
        /\ DOMAIN data \subseteq {"session_percent", "week_percent"}
        /\ Has(data, "session_percent") <=> HasKind(text, "SM")
        /\ Has(data, "week_percent") <=> HasKind(text, "WM")
        /\ Has(data, "session_percent") =>
              \E i \in 1..Len(text) :
                  text[i].kind = "SM" /\ text[i].pct = data["session_percent"]
        /\ Has(data, "week_percent") =>
              \E i \in 1..Len(text) :
                  text[i].kind = "WM" /\ text[i].pct = data["week_percent"]

C6_Witness ==
    /\ ppc = "parsed"
    /\ HasKind(text, "SM")
    /\ AfterHeader(text, "CS", "RT") # 0
    /\ DOMAIN data = {"session_percent"}

\* C10: with no compact marker, session_percent comes from a percent-used
\* phrase of the session section and week_percent from one of the week
\* section; a section without the phrase yields no percentage.
C10_PercentScopedToSection ==
    (ppc = "parsed" /\ ~CompactFound(text)) =>
        /\ Has(data, "session_percent") <=>
              \E j \in 1..Len(text) :
                  text[j].kind = "PU" /\ SectionOf(text, j) = "CS"
        /\ Has(data, "week_percent") <=>
              \E j \in 1..Len(text) :
                  text[j].kind = "PU" /\ SectionOf(text, j) = "CW"

(***************************************************************************)
(* update_usage_file: ~/.claude-usage.json is missing, not JSON            *)
(* ("invalid"), a JSON object, or JSON of another type ("array").          *)
(***************************************************************************)
MergeKeys == <<"session_percent", "session_reset_hour", "week_percent", "week_reset">>

\* lines 273-279: a missing or unreadable file leaves current = {}
LoadCurrent(file) == IF file.kind = "object" THEN file.obj ELSE EmptyDict

\* lines 282-284
RECURSIVE MergeFields(_, _, _)
MergeFields(current, new_data, keys) ==
    IF keys = <<>> THEN current
    ELSE LET k == Head(keys)
         IN  MergeFields(IF Has(new_data, k) THEN Put(current, k, new_data[k])
                         ELSE current,
                         new_data, Tail(keys))

\* the merge as a replacement of the whole object
update_usage_file_Replace(file, new_data, n) ==
    [kind |-> "object",
     obj |-> Put(MergeFields(EmptyDict, new_data, MergeKeys),
                 "last_updated", isoformat(n))]

\* the merge with "+=" for "=" on the percentages
update_usage_file_Accumulate(file, new_data, n) ==
    LET cur == LoadCurrent(file)
        m == MergeFields(cur, new_data, MergeKeys)
        acc == [k \in DOMAIN m |->
                   IF k \in {"session_percent", "week_percent"}
                      /\ Has(new_data, k) /\ Has(cur, k)
                   THEN cur[k] + new_data[k] ELSE m[k]]
    IN  [kind |-> "object", obj |-> Put(acc, "last_updated", isoformat(n))]

\* lines 271-291: the file written
update_usage_file(file, new_data, n) ==
    [kind |-> "object",
     obj |-> Put(MergeFields(LoadCurrent(file), new_data, MergeKeys),
                 "last_updated", isoformat(n))]

\* lines 284-286: item assignment on JSON that is no object raises TypeError
UpdateRaises(file) == file.kind = "array"

(***************************************************************************)
(* main of update_usage.py, one run per cron tick                          *)
(***************************************************************************)
MaxRuns == 3

UpdTextLen == 2

UpdTokens ==
    {CS, CW, PU(16), SM(16), WM(13), RT(2, 30, "am"), RD("Dec", 30, 5, 0, "pm")}

ErrorResult(msg) == Put(EmptyDict, "error", msg)

\* lines 164, 264, 266, 268: the error results of fetch_usage_via_pty
ErrorResults ==
    {ErrorResult("Claude not found. Install Claude Code first."),
     ErrorResult("PTY not available (Windows?)"),
     ErrorResult("Claude Code not found. Is it installed?"),
     ErrorResult("OSError")}

InitFiles ==
    {[kind |-> "missing", obj |-> EmptyDict],
     [kind |-> "invalid", obj |-> EmptyDict],
     [kind |-> "array", obj |-> EmptyDict],
     [kind |-> "object",
      obj |-> [session_percent |-> 50, session_reset_hour |-> 21,
               week_percent |-> 40,
               week_reset |-> <<2024, 12, 27, 17, 0, 0>>,
               last_updated |-> <<2024, 12, 19, 8, 15, 0>>,
               note |-> 7]]}

InitUpdater ==
    /\ now \in Nows
    /\ usage_file \in InitFiles
    /\ data = EmptyDict
    /\ mpc = "start"
    /\ exit_status = 0
    /\ runs = 0
    /\ merged = [some |-> FALSE, data |-> EmptyDict, twice |-> FALSE]
    /\ ParserIdle
    /\ DriverIdle
    /\ ConcIdle

\* line 299: data, raw = fetch_usage_via_pty()
FetchError ==
    /\ mpc = "start"
    /\ runs < MaxRuns
    /\ \E e \in ErrorResults : data' = e
    /\ mpc' = "fetched"
    /\ runs' = runs + 1
    /\ UNCHANGED <<now, usage_file, exit_status, merged, parserVars, concVars, driverVars>>

FetchParsed ==
    /\ mpc = "start"
    /\ runs < MaxRuns
    /\ \E t \in SeqsUpTo(UpdTokens, UpdTextLen) : data' = parse_usage_output(t, now)
    /\ mpc' = "fetched"
    /\ runs' = runs + 1
    /\ UNCHANGED <<now, usage_file, exit_status, merged, parserVars, concVars, driverVars>>

\* the test of line 301 alone
FailedOnlyOnError(d) == Has(d, "error")

\* lines 301 and 305: the results main does not persist
Failed(d) == Has(d, "error") \/ DOMAIN d = {}

\* lines 301-309: sys.exit(1)
MainFail ==
    /\ mpc = "fetched"
    /\ Failed(data)
    /\ exit_status' = 1
    /\ mpc' = "exited"
    /\ UNCHANGED <<now, data, usage_file, runs, merged, parserVars, concVars, driverVars>>

\* lines 311-314 when update_usage_file raises: the traceback exits with 1
MainUpdateRaises ==
    /\ mpc = "fetched"
    /\ ~Failed(data)
    /\ UpdateRaises(usage_file)
    /\ exit_status' = 1
    /\ mpc' = "exited"
    /\ UNCHANGED <<now, data, usage_file, runs, merged, parserVars, concVars, driverVars>>

\* lines 311-314
MainUpdate ==
    /\ mpc = "fetched"
    /\ ~Failed(data)
    /\ ~UpdateRaises(usage_file)
    /\ usage_file' = update_usage_file(usage_file, data, now)
    /\ merged' = [some |-> TRUE, data |-> data,
                  twice |-> merged.some /\ merged.data = data]
    /\ exit_status' = 0
    /\ mpc' = "exited"
    /\ UNCHANGED <<now, data, runs, parserVars, concVars, driverVars>>

\* the next cron tick, later on the clock
NextRun ==
    /\ mpc = "exited"
    /\ \E n \in Nows : DtLess(now, n) /\ now' = n
    /\ mpc' = "start"
    /\ UNCHANGED <<data, usage_file, exit_status, runs, merged, parserVars, concVars, driverVars>>

NextUpdater ==
    \/ FetchError
    \/ FetchParsed
    \/ MainFail
    \/ MainUpdateRaises
    \/ MainUpdate
    \/ NextRun

SpecUpdater == InitUpdater /\ [][NextUpdater]_vars

(***************************************************************************)
(* fetch_usage_via_pty: the driver and the child on the pseudo-terminal.   *)
(* Time is counted in ticks of the polling interval (half a second); a     *)
(* read of data that is ready takes no tick.                               *)
(***************************************************************************)
timeout == 20

StartupSleep == 3

CommandSleep == 1

TicksPerSecond == 2

MaxEmit == 4

DriverTokens == {CS, CW, PU(16), SM(16), WM(13), CSI}

\* lines 220-223: the completion test on the accumulated text
has_compact(t) ==
    (\E i \in 1..Len(t) : t[i].kind = "SM") /\ (\E i \in 1..Len(t) : t[i].kind = "WM")

has_full(t) ==
    /\ \E i \in 1..Len(t) : t[i].kind = "CS"
    /\ \E i \in 1..Len(t) : t[i].kind = "CW"
    /\ Cardinality({i \in 1..Len(t) : t[i].kind = "PU"}) >= 2

\* lines 258-259: the escape sequences are removed
StripAnsi(t) == SelectSeq(t, LAMBDA x : x.kind # "CSI")

\* select.select([master], ...): data to read, or the end of a closed terminal
Ready == pty_buf # <<>> \/ proc = "exited"

InitDriver ==
    /\ now \in Nows
    /\ data = EmptyDict
    /\ dpc = "start"
    /\ master = "none"
    /\ slave = "none"
    /\ proc = "none"
    /\ pty_buf = <<>>
    /\ emitted = 0
    /\ output = 0
    /\ usage_output = <<>>
    /\ elapsed = 0
    /\ stop = "none"
    /\ ParserIdle
    /\ MainIdle
    /\ ConcIdle

\* an except clause of lines 263-268: the error result is returned as things are
ReturnError(msg) ==
    /\ data' = ErrorResult(msg)
    /\ dpc' = "returned"

\* lines 157-164: no pty module, or no claude executable
NoPty ==
    /\ dpc = "start"
    /\ ReturnError("PTY not available (Windows?)")
    /\ UNCHANGED <<now, master, slave, proc, pty_buf, emitted, output,
                   usage_output, elapsed, stop, parserVars, concVars, mainVars>>

ClaudeNotFound ==
    /\ dpc = "start"
    /\ ReturnError("Claude not found. Install Claude Code first.")
    /\ UNCHANGED <<now, master, slave, proc, pty_buf, emitted, output,
                   usage_output, elapsed, stop, parserVars, concVars, mainVars>>

\* line 167: master, slave = pty.openpty()
OpenPty ==
    /\ dpc = "start"
    /\ master' = "open"
    /\ slave' = "open"
    /\ dpc' = "spawn"
    /\ UNCHANGED <<now, data, proc, pty_buf, emitted, output, usage_output,
                   elapsed, stop, parserVars, concVars, mainVars>>

\* lines 171-187: Popen, os.close(slave), the initial sleep
Spawn ==
    /\ dpc = "spawn"
    /\ proc' = "running"
    /\ slave' = "closed"
    /\ elapsed' = StartupSleep * TicksPerSecond
    /\ dpc' = "drain"
    /\ UNCHANGED <<now, data, master, pty_buf, emitted, output, usage_output,
                   stop, parserVars, concVars, mainVars>>

\* lines 171-178 when Popen raises (the executable is missing or cannot be run)
SpawnFails ==
    /\ dpc = "spawn"
    /\ ReturnError("Claude Code not found. Is it installed?")
    /\ UNCHANGED <<now, master, slave, proc, pty_buf, emitted, output,
                   usage_output, elapsed, stop, parserVars, concVars, mainVars>>

\* lines 190-196: a chunk of startup output is read and the drain goes on
DrainRead ==
    /\ dpc = "drain"
    /\ pty_buf # <<>>
    /\ output' = output + Len(pty_buf)
    /\ pty_buf' = <<>>
    /\ UNCHANGED <<now, data, dpc, master, slave, proc, emitted, usage_output,
                   elapsed, stop, parserVars, concVars, mainVars>>

\* lines 197-202: nothing ready within 0.2 s, or the end of the terminal
DrainEnd ==
    /\ dpc = "drain"
    /\ pty_buf = <<>>
    /\ dpc' = "send"
    /\ UNCHANGED <<now, data, master, slave, proc, pty_buf, emitted, output,
                   usage_output, elapsed, stop, parserVars, concVars, mainVars>>

\* lines 205-209: the command is written, then the sleep
SendCommand ==
    /\ dpc = "send"
    /\ elapsed' = elapsed + CommandSleep * TicksPerSecond
    /\ usage_output' = <<>>
    /\ dpc' = "poll"
    /\ UNCHANGED <<now, data, master, slave, proc, pty_buf, emitted, output,
                   stop, parserVars, concVars, mainVars>>

\* line 205 when os.write raises OSError: the child has gone
SendFails ==
    /\ dpc = "send"
    /\ proc = "exited"
    /\ ReturnError("OSError")
    /\ UNCHANGED <<now, master, slave, proc, pty_buf, emitted, output,
                   usage_output, elapsed, stop, parserVars, concVars, mainVars>>

InTime == elapsed < timeout * TicksPerSecond

\* lines 210-225: a chunk is read and the accumulated text tested
PollRead ==
    /\ dpc = "poll"
    /\ InTime
    /\ pty_buf # <<>>
    /\ usage_output' = usage_output \o pty_buf
    /\ pty_buf' = <<>>
    /\ IF has_compact(usage_output') \/ has_full(usage_output')
       THEN /\ stop' = "matched"
            /\ elapsed' = elapsed + 1
            /\ dpc' = "final_read"
       ELSE UNCHANGED <<stop, elapsed, dpc>>
    /\ UNCHANGED <<now, data, master, slave, proc, emitted, output,
                   parserVars, concVars, mainVars>>

\* lines 210-212: select returns nothing within the polling interval
PollWait ==
    /\ dpc = "poll"
    /\ InTime
    /\ ~Ready
    /\ elapsed' = elapsed + 1
    /\ UNCHANGED <<now, data, dpc, master, slave, proc, pty_buf, emitted,
                   output, usage_output, stop, parserVars, concVars, mainVars>>

\* lines 213-215, 233-234: the read at the end of a closed terminal raises
\* OSError and ends the loop
PollOSError ==
    /\ dpc = "poll"
    /\ InTime
    /\ pty_buf = <<>>
    /\ proc = "exited"
    /\ stop' = "oserror"
    /\ dpc' = "exit"
    /\ UNCHANGED <<now, data, master, slave, proc, pty_buf, emitted, output,
                   usage_output, elapsed, parserVars, concVars, mainVars>>

\* lines 214-215 where the read at the end of the terminal returns b'' (no
\* OSError): the chunk is empty and the loop goes round until the deadline
PollEmptyRead ==
    /\ dpc = "poll"
    /\ InTime
    /\ pty_buf = <<>>
    /\ proc = "exited"
    /\ elapsed' = elapsed + 1
    /\ UNCHANGED <<now, data, dpc, master, slave, proc, pty_buf, emitted,
                   output, usage_output, stop, parserVars, concVars, mainVars>>

\* line 210: the deadline has passed
PollTimeout ==
    /\ dpc = "poll"
    /\ ~InTime
    /\ stop' = "timeout"
    /\ dpc' = "exit"
    /\ UNCHANGED <<now, data, master, slave, proc, pty_buf, emitted, output,
                   usage_output, elapsed, parserVars, concVars, mainVars>>

\* lines 226-232: os.read(master, 4096) with no select before it; it returns
\* when there is data, raises OSError at the end of a closed terminal, and
\* otherwise waits
FinalRead ==
    /\ dpc = "final_read"
    /\ Ready
    /\ usage_output' = usage_output \o pty_buf
    /\ pty_buf' = <<>>
    /\ dpc' = "exit"
    /\ UNCHANGED <<now, data, master, slave, proc, emitted, output, elapsed,
                   stop, parserVars, concVars, mainVars>>

\* lines 236-261: /exit, terminate, wait or kill, close(master), parse
Cleanup ==
    /\ dpc = "exit"
    /\ \/ proc = "running" /\ proc' \in {"terminated", "killed"}
       \/ proc = "exited" /\ proc' = proc
    /\ master' = "closed"
    /\ data' = parse_usage_output(StripAnsi(usage_output), now)
    /\ dpc' = "returned"
    /\ UNCHANGED <<now, slave, pty_buf, emitted, output, usage_output, elapsed,
                   stop, parserVars, concVars, mainVars>>

\* the child writes to its terminal
ChildEmit ==
    /\ proc = "running"
    /\ dpc # "returned"
    /\ emitted < MaxEmit
    /\ \E tok \in DriverTokens : pty_buf' = Append(pty_buf, tok)
    /\ emitted' = emitted + 1
    /\ UNCHANGED <<now, data, dpc, master, slave, proc, output, usage_output,
                   elapsed, stop, parserVars, concVars, mainVars>>

\* the child ends by itself
ChildExit ==
    /\ proc = "running"
    /\ dpc # "returned"
    /\ proc' = "exited"
    /\ UNCHANGED <<now, data, dpc, master, slave, pty_buf, emitted, output,
                   usage_output, elapsed, stop, parserVars, concVars, mainVars>>

DriverStep ==
    \/ NoPty
    \/ ClaudeNotFound
    \/ OpenPty
    \/ Spawn
    \/ SpawnFails
    \/ DrainRead
    \/ DrainEnd
    \/ SendCommand
    \/ SendFails
    \/ PollRead
    \/ PollWait
    \/ PollOSError
    \/ PollEmptyRead
    \/ PollTimeout
    \/ FinalRead
    \/ Cleanup

NextDriver == DriverStep \/ ChildEmit \/ ChildExit

SpecDriver == InitDriver /\ [][NextDriver]_vars

(***************************************************************************)
(* Claims about main and update_usage_file                                 *)
(***************************************************************************)
\* a step of main from the fetch to the exit
MainStep == mpc = "fetched" /\ mpc' = "exited"

\* a step of main through update_usage_file
MergeStep == MainStep /\ exit_status' = 0

Without(d, k) == [x \in (DOMAIN d) \ {k} |-> d[x]]

\* C1: a merge leaves every key that is neither in the parse result nor
\* last_updated as it was: present before iff present after, with the same
\* value; this at every merge of every sequence of runs.
C1_MergeIsFieldWise ==
    [][MergeStep =>
        \A k \in ((DOMAIN usage_file.obj) \cup (DOMAIN usage_file'.obj))
                    \ ((DOMAIN data) \cup {"last_updated"}) :
            /\ Has(usage_file.obj, k)
            /\ Has(usage_file'.obj, k)
            /\ usage_file'.obj[k] = usage_file.obj[k]]_vars

C1_Witness ==
    /\ mpc = "exited"
    /\ exit_status = 0
    /\ DOMAIN data = {"session_percent"}
    /\ Has(usage_file.obj, "week_percent")
    /\ Has(usage_file.obj, "week_reset")
    /\ Has(usage_file.obj, "note")
    /\ usage_file.obj["session_percent"] = data["session_percent"]

\* C2: a run whose fetch result is an error or empty exits non-zero and
\* leaves the cache file as it was; the file changes, or the run exits 0,
\* only on a non-empty result without error.
C2_FailedRunKeepsCache ==
    [][MainStep =>
        /\ (Has(data, "error") \/ DOMAIN data = {}) =>
              (exit_status' # 0 /\ usage_file' = usage_file)
        /\ (exit_status' = 0 \/ usage_file' # usage_file) =>
              (DOMAIN data # {} /\ ~Has(data, "error"))]_vars

C2_Witness ==
    /\ mpc = "exited"
    /\ exit_status = 1
    /\ DOMAIN data = {}
    /\ runs > 1
    /\ merged.some
    /\ Has(usage_file.obj, "session_percent")

\* C7 as claimed: merging the parse result that was merged last leaves the
\* cache contents as they are.
C7_MergeIdempotent ==
    [][(MergeStep /\ merged.some /\ merged.data = data) =>
        usage_file' = usage_file]_vars

\* C7 as amended: merging the parse result that was merged last leaves
\* every key of the cache but last_updated as it is.
C7_MergeIdempotentButLastUpdated ==
    [][(MergeStep /\ merged.some /\ merged.data = data) =>
        /\ usage_file'.kind = usage_file.kind
        /\ Without(usage_file'.obj, "last_updated")
              = Without(usage_file.obj, "last_updated")]_vars

C7_Witness ==
    /\ mpc = "exited"
    /\ exit_status = 0
    /\ merged.twice
    /\ Has(data, "session_percent")

(***************************************************************************)
(* Claims about fetch_usage_via_pty                                        *)
(***************************************************************************)
\* C3: when fetch_usage_via_pty returns, no descriptor of the
\* pseudo-terminal is open and no child is left running.
C3_CleanupOnEveryExit ==
    dpc = "returned" =>
        /\ master \in {"none", "closed"}
        /\ slave \in {"none", "closed"}
        /\ proc \in {"none", "exited", "terminated", "killed"}

\* C8: whatever the child does, the driver is never kept waiting in a read:
\* until it has returned it can always take its next step.
C8_DriverNeverBlocked ==
    dpc \notin {"idle", "returned"} => ENABLED DriverStep

\* C9: the polling loop stops on a match only when both compact markers are
\* in the accumulated text, or the session header and the week header are
\* each followed by a percent-used phrase.
C9_StopsOnlyOnCompleteText ==
    (dpc = "final_read" /\ stop = "matched") =>
        \/ HasKind(usage_output, "SM") /\ HasKind(usage_output, "WM")
        \/ /\ AfterHeader(usage_output, "CS", "PU") # 0
           /\ AfterHeader(usage_output, "CW", "PU") # 0

(***************************************************************************)
(* SpecConcurrent: several invocations of the updater on one cache file.   *)
(* update_usage_file holds no lock: its read (lines 273-279), the          *)
(* truncation by open(USAGE_FILE, 'w') (line 288) and json.dump (line 289) *)
(* are steps other invocations can come between.  The clock stands still.  *)
(***************************************************************************)
NumInvocations == 2

Invocations == 1..NumInvocations

ConcTexts ==
    {<<>>, <<SM(16)>>, <<WM(13)>>, <<SM(16), WM(13)>>,
     <<CS, RT(2, 30, "am")>>, <<CW, RD("Dec", 30, 5, 0, "pm")>>}

UnderWay(p) == cpc[p] \in {"fetched", "loaded", "writing"}

InitConcurrent ==
    /\ now \in Nows
    /\ usage_file \in InitFiles
    /\ cpc = [p \in Invocations |-> "start"]
    /\ cdata = [p \in Invocations |-> EmptyDict]
    /\ loaded = [p \in Invocations |-> [kind |-> "missing", obj |-> EmptyDict]]
    /\ log = <<>>
    /\ overlapped = FALSE
    /\ data = EmptyDict
    /\ mpc = "idle"
    /\ exit_status = 0
    /\ runs = 0
    /\ merged = [some |-> FALSE, data |-> EmptyDict, twice |-> FALSE]
    /\ ParserIdle
    /\ DriverIdle

concRest == <<now, text, data, ppc, mpc, exit_status, runs, merged, driverVars>>

\* line 299 of an invocation, the fetch ending in an error result
CFetchError(p) ==
    /\ cpc[p] = "start"
    /\ \E e \in ErrorResults : cdata' = [cdata EXCEPT ![p] = e]
    /\ cpc' = [cpc EXCEPT ![p] = "fetched"]
    /\ overlapped' = (overlapped \/ \E q \in Invocations \ {p} : UnderWay(q))
    /\ UNCHANGED <<usage_file, loaded, log, concRest>>

\* line 299 of an invocation, the fetch ending in a parse result
CFetchParsed(p) ==
    /\ cpc[p] = "start"
    /\ \E t \in ConcTexts : cdata' = [cdata EXCEPT ![p] = parse_usage_output(t, now)]
    /\ cpc' = [cpc EXCEPT ![p] = "fetched"]
    /\ overlapped' = (overlapped \/ \E q \in Invocations \ {p} : UnderWay(q))
    /\ UNCHANGED <<usage_file, loaded, log, concRest>>

\* lines 301-309
CMainFail(p) ==
    /\ cpc[p] = "fetched"
    /\ Failed(cdata[p])
    /\ cpc' = [cpc EXCEPT ![p] = "failed"]
    /\ UNCHANGED <<usage_file, cdata, loaded, log, overlapped, concRest>>

\* lines 273-279: the file is read
CLoad(p) ==
    /\ cpc[p] = "fetched"
    /\ ~Failed(cdata[p])
    /\ loaded' = [loaded EXCEPT ![p] = usage_file]
    /\ cpc' = [cpc EXCEPT ![p] = "loaded"]
    /\ UNCHANGED <<usage_file, cdata, log, overlapped, concRest>>

\* lines 282-286 on JSON that is no object: TypeError, nothing is written
CUpdateRaises(p) ==
    /\ cpc[p] = "loaded"
    /\ UpdateRaises(loaded[p])
    /\ cpc' = [cpc EXCEPT ![p] = "failed"]
    /\ UNCHANGED <<usage_file, cdata, loaded, log, overlapped, concRest>>

\* line 288: open(USAGE_FILE, 'w') empties the file
CTruncate(p) ==
    /\ cpc[p] = "loaded"
    /\ ~UpdateRaises(loaded[p])
    /\ usage_file' = [kind |-> "invalid", obj |-> EmptyDict]
    /\ cpc' = [cpc EXCEPT ![p] = "writing"]
    /\ UNCHANGED <<cdata, loaded, log, overlapped, concRest>>

\* line 289: json.dump of what was read, merged with new_data; of two
\* invocations writing at once the file keeps what the later dump wrote
CDump(p) ==
    /\ cpc[p] = "writing"
    /\ usage_file' = update_usage_file(loaded[p], cdata[p], now)
    /\ log' = Append(log, cdata[p])
    /\ cpc' = [cpc EXCEPT ![p] = "done"]
    /\ UNCHANGED <<cdata, loaded, overlapped, concRest>>

NextConcurrent ==
    \E p \in Invocations :
        \/ CFetchError(p)
        \/ CFetchParsed(p)
        \/ CMainFail(p)
        \/ CLoad(p)
        \/ CUpdateRaises(p)
        \/ CTruncate(p)
        \/ CDump(p)

SpecConcurrent == InitConcurrent /\ [][NextConcurrent]_vars

(***************************************************************************)
(* Claim about concurrent invocations                                      *)
(***************************************************************************)
\* no invocation is between its start and its end
Quiescent == \A p \in Invocations : ~UnderWay(p)

\* the write log[i] set key k and no later write set it
LastWriteOf(i, k) ==
    /\ Has(log[i], k)
    /\ \A j \in (i + 1)..Len(log) : ~Has(log[j], k)

MergeKeySet == {MergeKeys[i] : i \in 1..Len(MergeKeys)}

\* C11: when the invocations ran one after another, the cache holds, for
\* every key an invocation wrote, the value of the last write of that key;
\* the witness is the concurrent case: after overlapping invocations the
\* cache holds an older value for a key whose last write was another one.
C11_SerialRunsKeepEveryField ==
    (Quiescent /\ ~overlapped) =>
        \A i \in 1..Len(log) : \A k \in MergeKeySet :
            LastWriteOf(i, k) =>
                /\ usage_file.kind = "object"
                /\ Has(usage_file.obj, k)
                /\ usage_file.obj[k] = log[i][k]

C11_LostUpdate ==
    /\ \A p \in Invocations : cpc[p] = "done"
    /\ overlapped
    /\ usage_file.kind = "object"
    /\ \E i \in 1..Len(log) : \E k \in MergeKeySet :
          /\ LastWriteOf(i, k)
          /\ Has(usage_file.obj, k)
          /\ usage_file.obj[k] # log[i][k]

====
